---- MODULE Spec2Model ----
(***************************************************************************)
(* Model of bg814_py (src/main.py): the Vector and Matrix list subclasses, *)
(* create_rotation_matrix / convert, and the iteration driver main().      *)
(*                                                                         *)
(* Two specifications share the module:                                    *)
(*   Spec      one call of a Vector / Matrix operation on operands drawn   *)
(*             from bounded sets (Python ints as elements, exact);         *)
(*   MainSpec  the driver main(), one action per statement of its loop.    *)
(* Python floats of the driver are modelled in fixed point (see FIX).      *)
(***************************************************************************)
EXTENDS Integers, Sequences, FiniteSets, TLC

VARIABLES
    op,       \* operation that was called ("none" before the call)
    lhs,      \* left operand object (self), with its current contents
    rhs,      \* right operand object (other)
    lhs0,     \* contents of the left operand before the call
    arg,      \* integer argument of identity(size) / create_rotation_matrix(angle)
    result,   \* value returned by the call, or the exception it raised
    pc,       \* position of main()
    step,     \* main: loop variable `step`
    idx,      \* main: inner loop variable `i`
    m,        \* main: composed matrix m
    dv,       \* main: translation dv
    figure,   \* main: list of 4 Vectors
    dots,     \* main: list of TOTAL_STEPS Vectors
    canvas,   \* items created on the tkinter canvas, in call order
    figLog,   \* per vertex: the steps in which convert() was applied to it
    dotLog    \* per dot: the steps in which convert() was applied to it

algVars == <<op, lhs, rhs, lhs0, arg, result>>
mainVars == <<pc, step, idx, m, dv, figure, dots, canvas, figLog, dotLog>>
vars == <<op, lhs, rhs, lhs0, arg, result,
          pc, step, idx, m, dv, figure, dots, canvas, figLog, dotLog>>

----------------------------------------------------------------------------
(* Bounds of the operand universe *)

MaxCols == 2
MaxRows == 2
MaxCells == 4
MaxVal == 1
MaxAngle == 15

Elem == 0..MaxVal

----------------------------------------------------------------------------
(* Python values.  kind is the class of the object:                        *)
(*   "Vector", "list" (a plain list of numbers), "Matrix" (columns),       *)
(*   "scalar", "None", "self" (the left operand object itself), or the     *)
(*   name of the exception that was raised.                                *)

Vec(s) == [kind |-> "Vector", elems |-> s, columns |-> <<>>]
Lst(s) == [kind |-> "list", elems |-> s, columns |-> <<>>]
Mat(cs) == [kind |-> "Matrix", elems |-> <<>>, columns |-> cs]
Scalar(x) == [kind |-> "scalar", elems |-> <<x>>, columns |-> <<>>]
Exc(name) == [kind |-> name, elems |-> <<>>, columns |-> <<>>]
NoneVal == [kind |-> "None", elems |-> <<>>, columns |-> <<>>]
SelfRef == [kind |-> "self", elems |-> <<>>, columns |-> <<>>]

IsExc(v) == v.kind \in {"TypeError", "IndexError"}

Min(a, b) == IF a <= b THEN a ELSE b

\* len(x) of a list object: Vector / list count numbers, Matrix counts columns
PyLen(v) == IF v.kind = "Matrix" THEN Len(v.columns) ELSE Len(v.elems)

RECURSIVE SumSeq(_)
SumSeq(s) == IF s = <<>> THEN 0 ELSE Head(s) + SumSeq(Tail(s))

----------------------------------------------------------------------------
(* class Vector *)

\* returns NotImplemented (a value every caller drops) for a non-Vector,
\* raises TypeError for a Vector of another length
Vector_ensure_compatibility(self, other) ==
    IF other.kind # "Vector" THEN "NotImplemented"
    ELSE IF Len(self.elems) # Len(other.elems) THEN "TypeError"
    ELSE "None"

Vector_size(self) == Len(self.elems)

\* zip() stops at the shorter operand; an element of a Matrix is a Vector,
\* and int + Vector raises TypeError
Vector_add(self, other) ==
    IF Vector_ensure_compatibility(self, other) = "TypeError" THEN Exc("TypeError")
    ELSE IF other.kind = "Matrix"
         THEN IF Min(Len(self.elems), PyLen(other)) = 0 THEN Vec(<<>>) ELSE Exc("TypeError")
    ELSE Vec([i \in 1..Min(Len(self.elems), Len(other.elems)) |->
                 self.elems[i] + other.elems[i]])

Vector_sub(self, other) ==
    IF Vector_ensure_compatibility(self, other) = "TypeError" THEN Exc("TypeError")
    ELSE IF other.kind = "Matrix"
         THEN IF Min(Len(self.elems), PyLen(other)) = 0 THEN Vec(<<>>) ELSE Exc("TypeError")
    ELSE Vec([i \in 1..Min(Len(self.elems), Len(other.elems)) |->
                 self.elems[i] - other.elems[i]])

\* in-place: [self |-> contents of self after the call, ret |-> returned / raised].
\* The loop runs over range(self.size); other[i] raises IndexError when other
\* is shorter, after the elements before i were already updated.
Vector_iadd(self, other) ==
    IF Vector_ensure_compatibility(self, other) = "TypeError"
    THEN [self |-> self, ret |-> Exc("TypeError")]
    ELSE IF other.kind = "Matrix"
         THEN IF Vector_size(self) = 0 \/ PyLen(other) = 0
              THEN [self |-> self,
                    ret |-> IF Vector_size(self) = 0 THEN SelfRef ELSE Exc("IndexError")]
              ELSE [self |-> self, ret |-> Exc("TypeError")]
    ELSE LET n == Min(Vector_size(self), Len(other.elems))
             upd == [i \in 1..Vector_size(self) |->
                        IF i <= n THEN self.elems[i] + other.elems[i]
                        ELSE self.elems[i]]
         IN [self |-> Vec(upd),
             ret |-> IF n < Vector_size(self) THEN Exc("IndexError") ELSE SelfRef]

\* variant: the loop of __isub__ adds
Vector_isub_adds(self, other) == Vector_iadd(self, other)

Vector_isub(self, other) ==
    IF Vector_ensure_compatibility(self, other) = "TypeError"
    THEN [self |-> self, ret |-> Exc("TypeError")]
    ELSE IF other.kind = "Matrix"
         THEN IF Vector_size(self) = 0 \/ PyLen(other) = 0
              THEN [self |-> self,
                    ret |-> IF Vector_size(self) = 0 THEN SelfRef ELSE Exc("IndexError")]
              ELSE [self |-> self, ret |-> Exc("TypeError")]
    ELSE LET n == Min(Vector_size(self), Len(other.elems))
             upd == [i \in 1..Vector_size(self) |->
                        IF i <= n THEN self.elems[i] - other.elems[i]
                        ELSE self.elems[i]]
         IN [self |-> Vec(upd),
             ret |-> IF n < Vector_size(self) THEN Exc("IndexError") ELSE SelfRef]

\* sum(x1 * x2 for zip); int * Vector is a list, and sum's 0 + list raises
Vector_scalar_prod(self, other) ==
    IF Vector_ensure_compatibility(self, other) = "TypeError" THEN Exc("TypeError")
    ELSE IF other.kind = "Matrix"
         THEN IF Min(Len(self.elems), PyLen(other)) = 0 THEN Scalar(0) ELSE Exc("TypeError")
    ELSE Scalar(SumSeq([i \in 1..Min(Len(self.elems), Len(other.elems)) |->
                           self.elems[i] * other.elems[i]]))

----------------------------------------------------------------------------
(* class Matrix: a list of column Vectors *)

Matrix_cols(self) == Len(self.columns)

\* len(self[0]): the length of the first column only
Matrix_rows(self) == Len(self.columns[1])

Matrix_ensure_same_size(self, other) ==
    IF Matrix_cols(self) # Matrix_cols(other) \/ Matrix_rows(self) # Matrix_rows(other)
    THEN "TypeError" ELSE "None"

Matrix_ensure_addable(self, other) ==
    IF other.kind # "Matrix" THEN "TypeError"
    ELSE Matrix_ensure_same_size(self, other)

Matrix_ensure_multiplicable(self, other) ==
    IF other.kind \notin {"Matrix", "Vector"} THEN "TypeError"
    ELSE LET size == IF other.kind = "Matrix" THEN Matrix_rows(other)
                     ELSE Vector_size(other)
         IN IF Matrix_cols(self) # size THEN "TypeError" ELSE "None"

\* index of the first column whose Vector operation raises, cols + 1 if none
FirstRaise(colResults) ==
    LET bad == {i \in 1..Len(colResults) : IsExc(colResults[i])}
    IN IF bad = {} THEN Len(colResults) + 1
       ELSE CHOOSE i \in bad : \A j \in bad : i <= j

\* Matrix(v1 + v2 for v1, v2 in zip(self, other)): the first column pair that
\* raises aborts the construction
Matrix_add(self, other) ==
    IF Matrix_ensure_addable(self, other) = "TypeError" THEN Exc("TypeError")
    ELSE LET sums == [i \in 1..Matrix_cols(self) |->
                         Vector_add(Vec(self.columns[i]), Vec(other.columns[i]))]
             f == FirstRaise(sums)
         IN IF f <= Matrix_cols(self) THEN sums[f]
            ELSE Mat([i \in 1..Matrix_cols(self) |-> sums[i].elems])

Matrix_sub(self, other) ==
    IF Matrix_ensure_addable(self, other) = "TypeError" THEN Exc("TypeError")
    ELSE LET diffs == [i \in 1..Matrix_cols(self) |->
                          Vector_sub(Vec(self.columns[i]), Vec(other.columns[i]))]
             f == FirstRaise(diffs)
         IN IF f <= Matrix_cols(self) THEN diffs[f]
            ELSE Mat([i \in 1..Matrix_cols(self) |-> diffs[i].elems])

\* for i in range(self.cols): self[i] += other[i].  The columns before the
\* first one that raises have already been updated in place.
Matrix_iadd(self, other) ==
    IF Matrix_ensure_addable(self, other) = "TypeError"
    THEN [self |-> self, ret |-> Exc("TypeError")]
    ELSE LET calls == [i \in 1..Matrix_cols(self) |->
                          Vector_iadd(Vec(self.columns[i]), Vec(other.columns[i]))]
             f == FirstRaise([i \in 1..Matrix_cols(self) |-> calls[i].ret])
             upd == [i \in 1..Matrix_cols(self) |->
                        IF i <= f THEN calls[i].self.elems ELSE self.columns[i]]
         IN [self |-> Mat(upd),
             ret |-> IF f <= Matrix_cols(self) THEN calls[f].ret ELSE SelfRef]

Matrix_isub(self, other) ==
    IF Matrix_ensure_addable(self, other) = "TypeError"
    THEN [self |-> self, ret |-> Exc("TypeError")]
    ELSE LET calls == [i \in 1..Matrix_cols(self) |->
                          Vector_isub(Vec(self.columns[i]), Vec(other.columns[i]))]
             f == FirstRaise([i \in 1..Matrix_cols(self) |-> calls[i].ret])
             upd == [i \in 1..Matrix_cols(self) |->
                        IF i <= f THEN calls[i].self.elems ELSE self.columns[i]]
         IN [self |-> Mat(upd),
             ret |-> IF f <= Matrix_cols(self) THEN calls[f].ret ELSE SelfRef]

\* Vector(self[j][i] for j in range(self.cols)): row i (1-based here);
\* self[j][i] raises IndexError when column j is shorter than the first one
RowRaises(self, i) == \E j \in 1..Matrix_cols(self) : Len(self.columns[j]) < i

\* variant: reads self[j][0] for every row
Row_first(self, i) == Vec([j \in 1..Matrix_cols(self) |-> self.columns[j][1]])

Row(self, i) == Vec([j \in 1..Matrix_cols(self) |-> self.columns[j][i]])

\* The generators run k outermost, i inside.  Row i is built before its
\* scalar_prod; other[0] always has the checked length, so a short column of
\* self raises IndexError during k = 0, before any later column of other can
\* raise TypeError in scalar_prod.
Matrix_mul(self, other) ==
    IF Matrix_ensure_multiplicable(self, other) = "TypeError" THEN Exc("TypeError")
    ELSE IF \E i \in 1..Matrix_rows(self) : RowRaises(self, i) THEN Exc("IndexError")
    ELSE IF other.kind = "Vector"
    THEN Vec([i \in 1..Matrix_rows(self) |->
                 Vector_scalar_prod(Row(self, i), other).elems[1]])
    ELSE IF \E k \in 1..Matrix_cols(other) :
                Len(other.columns[k]) # Matrix_cols(self) THEN Exc("TypeError")
    ELSE LET prod == [k \in 1..Matrix_cols(other) |->
                         [i \in 1..Matrix_rows(self) |->
                             Vector_scalar_prod(Row(self, i),
                                                Vec(other.columns[k])).elems[1]]]
         IN IF Len(prod) = 1 THEN Vec(prod[1]) ELSE Mat(prod)

\* other = Matrix(other for _ in range(1)): ONE column holding the Vector
Matrix_rmul(self, other) ==
    IF other.kind # "Vector" THEN Exc("TypeError")
    ELSE Matrix_mul(Mat(<<other.elems>>), self)

\* variant: 1 if j <= i else 0
Matrix_identity_lower(size) ==
    Mat([i \in 1..size |-> [j \in 1..size |-> IF j <= i THEN 1 ELSE 0]])

\* column i is Vector(1 if j == i else 0 for j in range(size))
Matrix_identity(size) ==
    Mat([i \in 1..size |-> [j \in 1..size |-> IF j = i THEN 1 ELSE 0]])

----------------------------------------------------------------------------
(* Fixed point for the driver's floats: a matrix entry x is held as the    *)
(* integer nearest to x * FIX, a coordinate as an integer number of units. *)

FIX == 1000

\* math.cos / math.sin, angle given in units of pi/16, values times 1000
Cos(a) ==
    << 1000, 981, 924, 831, 707, 556, 383, 195, 0, -195, -383, -556, -707,
       -831, -924, -981, -1000, -981, -924, -831, -707, -556, -383, -195, 0,
       195, 383, 556, 707, 831, 924, 981 >>[(a % 32) + 1]

Sin(a) ==
    << 0, 195, 383, 556, 707, 831, 924, 981, 1000, 981, 924, 831, 707, 556,
       383, 195, 0, -195, -383, -556, -707, -831, -924, -981, -1000, -981,
       -924, -831, -707, -556, -383, -195 >>[(a % 32) + 1]

\* variant: the two sines exchanged
create_rotation_matrix_swapped(angle) ==
    Mat(<< <<Cos(angle), 0 - Sin(angle)>>, <<Sin(angle), Cos(angle)>> >>)

create_rotation_matrix(angle) ==
    Mat(<< <<Cos(angle), Sin(angle)>>, <<0 - Sin(angle), Cos(angle)>> >>)

\* rounding of a product of two fixed-point factors back to one factor of FIX
Rescale(v) ==
    IF v.kind = "Matrix"
    THEN Mat([k \in 1..Len(v.columns) |->
                 [i \in 1..Len(v.columns[k]) |-> v.columns[k][i] \div FIX]])
    ELSE IF v.kind = "Vector"
    THEN Vec([i \in 1..Len(v.elems) |-> v.elems[i] \div FIX])
    ELSE v

\* m * v + dv
convert(v, mm, d) ==
    LET mv == Rescale(Matrix_mul(mm, v))
    IN IF IsExc(mv) THEN mv ELSE Vector_add(mv, d)

----------------------------------------------------------------------------
(* Module constants and drawing helpers *)

MAX_H == 500
MAX_W == 500
COLORS == <<"red", "green", "blue", "orange", "magenta", "cyan", "brown", "olive", "yellow">>
BG_COLOR == "white"
INIT_SIZE == 490
TOTAL_STEPS == 8
THICKNESS == 1

to_graphic_coords(pos) ==
    <<pos.elems[1] + (MAX_W \div 2), (0 - pos.elems[2]) + (MAX_H \div 2)>>

construct_figure(xsize, ysize) ==
    LET xs == xsize \div 2
        ys == ysize \div 2
    IN << Vec(<<xs, ys>>), Vec(<<0 - xs, ys>>), Vec(<<0 - xs, 0 - ys>>), Vec(<<xs, 0 - ys>>) >>

\* x0, y0, x1, y1, ... of the positions
RECURSIVE convert_figure_for_draw(_)
convert_figure_for_draw(fig) ==
    IF fig = <<>> THEN <<>>
    ELSE to_graphic_coords(Head(fig)) \o convert_figure_for_draw(Tail(fig))

Item(kind, coords, outline, fill) ==
    [item |-> kind, coords |-> coords, outline |-> outline, fill |-> fill]

draw_figure(fig, color, cv) ==
    Append(cv, Item("polygon", convert_figure_for_draw(fig), color, BG_COLOR))

\* the line and the oval drawn for dot number d (1-based index d + 1), d >= 1
DotItems(coords, d) ==
    LET i == 2 * d
        color_i == d % Len(COLORS)
        \* COLORS[color_i - 1]: index -1 is the last colour
        prev == IF color_i = 0 THEN Len(COLORS) ELSE color_i
    IN << Item("line", << coords[i - 1] - THICKNESS, coords[i] - THICKNESS,
                          coords[i + 1] + THICKNESS, coords[i + 2] + THICKNESS >>,
                "", COLORS[prev]),
          Item("oval", << coords[i + 1] - THICKNESS, coords[i + 2] - THICKNESS,
                          coords[i + 1] + THICKNESS, coords[i + 2] + THICKNESS >>,
                COLORS[color_i + 1], COLORS[color_i + 1]) >>

RECURSIVE DotItemsFrom(_, _, _)
DotItemsFrom(coords, d, n) ==
    IF d >= n THEN <<>> ELSE DotItems(coords, d) \o DotItemsFrom(coords, d + 1, n)

draw_dots(ds, cv) ==
    LET coords == convert_figure_for_draw(ds)
    IN cv \o << Item("oval", << coords[1] - THICKNESS, coords[2] - THICKNESS,
                               coords[1] + THICKNESS, coords[2] + THICKNESS >>,
                     COLORS[1], COLORS[1]) >>
          \o DotItemsFrom(coords, 1, Len(ds))

\* number of outcomes of the random source that are explored
NumSeeds == 4

\* random.randint(-xs, xs), random.randint(-ys, ys): draw number j of the
\* outcome `seed`, a point of the box [-xs, xs] x [-ys, ys]
RandomPoint(seed, j, xs, ys) ==
    Vec(<< ((seed * 97 + j * 61) % (2 * xs + 1)) - xs,
           ((seed * 53 + j * 131) % (2 * ys + 1)) - ys >>)

\* the lists make_random_dots(n, xsize, ysize) can return
make_random_dots(n, xsize, ysize) ==
    LET xs == xsize \div 2
        ys == ysize \div 2
    IN {[j \in 1..n |-> RandomPoint(seed, j, xs, ys)] : seed \in 1..NumSeeds}

----------------------------------------------------------------------------
(* Control flow of main() from the first draw_figure call on.              *)
(* Positions: "start" (245-256), "setup" (260-268), "draw0" (270-271),     *)
(* "figure" (273-274), "dots" (275-276), "draw" (278-279),                 *)
(* "drawdots" (282-284), "done" (mainloop entered).                        *)

\* for step in range(1, TOTAL_STEPS): the start of the range
StepLo == 1

\* variant: range(1, TOTAL_STEPS + 1)
StepHi_inclusive == TOTAL_STEPS + 1

\* the stop of the range
StepHi == TOTAL_STEPS

\* variant: range(0, TOTAL_STEPS)
DotLo_zero(s) == 0

\* for i in range(step, TOTAL_STEPS)
DotLo(s) == s
DotHi == TOTAL_STEPS

Pos(p, s, i) == [pc |-> p, step |-> s, idx |-> i]

DotLoop(s, i, nxt) == IF nxt < DotHi THEN Pos("dots", s, nxt) ELSE Pos("draw", s, i)

FigLoop(s, i, nxt, n) ==
    IF nxt < n THEN Pos("figure", s, nxt) ELSE DotLoop(s, i, DotLo(s))

StepLoop(s, i, nxt, n) ==
    IF nxt < StepHi THEN FigLoop(nxt, i, 0, n) ELSE Pos("drawdots", s, i)

\* variant: draw_dots indented into the body of the step loop
NextPos_dots_in_loop(p, s, i, n) ==
    CASE p = "start" -> Pos("setup", s, i)
      [] p = "setup" -> Pos("draw0", s, i)
      [] p = "draw0" -> StepLoop(s, i, StepLo, n)
      [] p = "figure" -> FigLoop(s, i, i + 1, n)
      [] p = "dots" -> DotLoop(s, i, i + 1)
      [] p = "draw" -> Pos("drawdots", s, i)
      [] p = "drawdots" ->
            IF s + 1 < StepHi THEN FigLoop(s + 1, i, 0, n) ELSE Pos("done", s, i)
      [] OTHER -> Pos(p, s, i)

\* position reached when the statement at position p has run
\* (n is len(figure))
NextPos(p, s, i, n) ==
    CASE p = "start" -> Pos("setup", s, i)
      [] p = "setup" -> Pos("draw0", s, i)
      [] p = "draw0" -> StepLoop(s, i, StepLo, n)
      [] p = "figure" -> FigLoop(s, i, i + 1, n)
      [] p = "dots" -> DotLoop(s, i, i + 1)
      [] p = "draw" -> StepLoop(s, i, s + 1, n)
      [] p = "drawdots" -> Pos("done", s, i)
      [] OTHER -> Pos(p, s, i)

----------------------------------------------------------------------------
(* Operand universe *)

Columns == UNION {[1..r -> Elem] : r \in 1..MaxRows}

\* lists of 1..MaxCols columns, of equal length or not, that fit in a box of
\* MaxCells cells (number of columns times the longest column)
Matrices ==
    UNION {{cs \in [1..c -> Columns] :
               \A j \in 1..c : c * Len(cs[j]) <= MaxCells} : c \in 1..MaxCols}
Values == {Vec(e) : e \in Columns} \cup {Lst(e) : e \in Columns}
              \cup {Mat(cs) : cs \in Matrices}

MainIdle ==
    /\ pc = "idle" /\ step = 0 /\ idx = 0
    /\ m = NoneVal /\ dv = NoneVal
    /\ figure = <<>> /\ dots = <<>> /\ canvas = <<>>
    /\ figLog = <<>> /\ dotLog = <<>>

AlgIdle ==
    /\ op = "none" /\ lhs = NoneVal /\ rhs = NoneVal /\ lhs0 = NoneVal
    /\ arg = 0 /\ result = NoneVal

\* two operand objects, or none for the calls that take a number
Init ==
    /\ op = "none" /\ arg = 0 /\ result = NoneVal
    /\ \/ lhs \in Values /\ rhs \in Values
       \/ lhs = NoneVal /\ rhs = NoneVal
    /\ lhs0 = lhs
    /\ MainIdle

Ready == op = "none" /\ pc = "idle"

Returns(name, r) ==
    /\ op' = name
    /\ result' = r
    /\ UNCHANGED <<lhs, rhs, lhs0, arg>>
    /\ UNCHANGED mainVars

InPlace(name, r) ==
    /\ op' = name
    /\ lhs' = r.self
    /\ result' = r.ret
    /\ UNCHANGED <<rhs, lhs0, arg>>
    /\ UNCHANGED mainVars

\* lhs + rhs, lhs a Vector
VectorAdd == Ready /\ lhs.kind = "Vector" /\ Returns("Vector.add", Vector_add(lhs, rhs))

\* lhs - rhs
VectorSub == Ready /\ lhs.kind = "Vector" /\ Returns("Vector.sub", Vector_sub(lhs, rhs))

\* lhs += rhs
VectorIAdd == Ready /\ lhs.kind = "Vector" /\ InPlace("Vector.iadd", Vector_iadd(lhs, rhs))

\* lhs -= rhs
VectorISub == Ready /\ lhs.kind = "Vector" /\ InPlace("Vector.isub", Vector_isub(lhs, rhs))

\* lhs.scalar_prod(rhs)
VectorScalarProd ==
    Ready /\ lhs.kind = "Vector" /\ Returns("Vector.scalar_prod", Vector_scalar_prod(lhs, rhs))

MatrixAdd == Ready /\ lhs.kind = "Matrix" /\ Returns("Matrix.add", Matrix_add(lhs, rhs))

MatrixSub == Ready /\ lhs.kind = "Matrix" /\ Returns("Matrix.sub", Matrix_sub(lhs, rhs))

MatrixIAdd == Ready /\ lhs.kind = "Matrix" /\ InPlace("Matrix.iadd", Matrix_iadd(lhs, rhs))

MatrixISub == Ready /\ lhs.kind = "Matrix" /\ InPlace("Matrix.isub", Matrix_isub(lhs, rhs))

\* lhs * rhs, lhs a Matrix
MatrixMul == Ready /\ lhs.kind = "Matrix" /\ Returns("Matrix.mul", Matrix_mul(lhs, rhs))

\* lhs * rhs, rhs a Matrix and lhs a Vector or a list: neither defines the
\* numeric multiplication, so Python calls rhs.__rmul__(lhs)
MatrixRMul ==
    /\ Ready /\ rhs.kind = "Matrix" /\ lhs.kind \in {"Vector", "list"}
    /\ Returns("Matrix.rmul", Matrix_rmul(rhs, lhs))

\* Matrix.identity(size)
MatrixIdentity ==
    /\ Ready /\ lhs = NoneVal
    /\ \E size \in 1..MaxCols :
          /\ op' = "Matrix.identity" /\ arg' = size
          /\ result' = Matrix_identity(size)
    /\ UNCHANGED <<lhs, rhs, lhs0>>
    /\ UNCHANGED mainVars

\* create_rotation_matrix(angle), angle = a * pi / 16
CreateRotation ==
    /\ Ready /\ lhs = NoneVal
    /\ \E a \in 0..MaxAngle :
          /\ op' = "create_rotation_matrix" /\ arg' = a
          /\ result' = create_rotation_matrix(a)
    /\ UNCHANGED <<lhs, rhs, lhs0>>
    /\ UNCHANGED mainVars

Next ==
    \/ VectorAdd \/ VectorSub \/ VectorIAdd \/ VectorISub \/ VectorScalarProd
    \/ MatrixAdd \/ MatrixSub \/ MatrixIAdd \/ MatrixISub
    \/ MatrixMul \/ MatrixRMul \/ MatrixIdentity \/ CreateRotation

Spec == Init /\ [][Next]_vars

----------------------------------------------------------------------------
(* main() *)

MainInit ==
    /\ AlgIdle
    /\ pc = "start" /\ step = 0 /\ idx = 0
    /\ m = NoneVal /\ dv = NoneVal
    /\ figure = <<>> /\ dots = <<>> /\ canvas = <<>>
    /\ figLog = <<>> /\ dotLog = <<>>

Goto(p) ==
    LET nx == NextPos(p, step, idx, Len(figure))
    IN pc' = nx.pc /\ step' = nx.step /\ idx' = nx.idx

fixed_point == Vec(<<69, 47>>)

\* lines 245-256: m = m_enlarge * m_rotate, dv = (INIT_SIZE / 5, 0)
BuildTransform ==
    /\ pc = "start"
    /\ LET m_enlarge == Mat(<< <<FIX \div 2, 0>>, <<0, (8 * FIX) \div 10>> >>)
           m_rotate == create_rotation_matrix(9)
       IN m' = Rescale(Matrix_mul(m_enlarge, m_rotate))
    /\ dv' = Vec(<<INIT_SIZE \div 5, 0>>)
    /\ Goto("start")
    /\ UNCHANGED <<figure, dots, canvas, figLog, dotLog>>
    /\ UNCHANGED algVars

\* lines 260-268: the window, the figure and the dots
Setup ==
    /\ pc = "setup"
    /\ figure' = construct_figure(INIT_SIZE, INIT_SIZE)
    /\ \E rnd \in make_random_dots(TOTAL_STEPS - 1, INIT_SIZE, INIT_SIZE) :
          dots' = <<fixed_point>> \o rnd
    /\ figLog' = [v \in 1..4 |-> <<>>]
    /\ dotLog' = [d \in 1..TOTAL_STEPS |-> <<>>]
    /\ pc' = "draw0"
    /\ UNCHANGED <<step, idx, m, dv, canvas>>
    /\ UNCHANGED algVars

\* lines 270-271
DrawInitial ==
    /\ pc = "draw0"
    /\ canvas' = draw_figure(figure, COLORS[1], canvas)
    /\ Goto("draw0")
    /\ UNCHANGED <<m, dv, figure, dots, figLog, dotLog>>
    /\ UNCHANGED algVars

\* line 274: figure[i] = convert(figure[i], m, dv)
ConvertFigure ==
    /\ pc = "figure"
    /\ figure' = [figure EXCEPT ![idx + 1] = convert(figure[idx + 1], m, dv)]
    /\ figLog' = [figLog EXCEPT ![idx + 1] = Append(@, step)]
    /\ Goto("figure")
    /\ UNCHANGED <<m, dv, dots, canvas, dotLog>>
    /\ UNCHANGED algVars

\* line 276: dots[i] = convert(dots[i], m, dv)
ConvertDot ==
    /\ pc = "dots"
    /\ dots' = [dots EXCEPT ![idx + 1] = convert(dots[idx + 1], m, dv)]
    /\ dotLog' = [dotLog EXCEPT ![idx + 1] = Append(@, step)]
    /\ Goto("dots")
    /\ UNCHANGED <<m, dv, figure, canvas, figLog>>
    /\ UNCHANGED algVars

\* lines 278-279
DrawStep ==
    /\ pc = "draw"
    /\ canvas' = draw_figure(figure, COLORS[(step % Len(COLORS)) + 1], canvas)
    /\ Goto("draw")
    /\ UNCHANGED <<m, dv, figure, dots, figLog, dotLog>>
    /\ UNCHANGED algVars

\* lines 282-284: draw_dots, pack, mainloop
DrawDots ==
    /\ pc = "drawdots"
    /\ canvas' = draw_dots(dots, canvas)
    /\ Goto("drawdots")
    /\ UNCHANGED <<m, dv, figure, dots, figLog, dotLog>>
    /\ UNCHANGED algVars

MainNext ==
    \/ BuildTransform \/ Setup \/ DrawInitial
    \/ ConvertFigure \/ ConvertDot \/ DrawStep \/ DrawDots

MainSpec == MainInit /\ [][MainNext]_vars

\* main() is one thread of straight-line code: a step that can run does run
FairMainSpec == MainSpec /\ WF_vars(MainNext)

----------------------------------------------------------------------------
(* Properties *)

\* a Matrix in the sense of the data model: every column as long as the first
WellFormed(v) ==
    /\ v.kind = "Matrix"
    /\ \A j \in 1..Len(v.columns) : Len(v.columns[j]) = Len(v.columns[1])

\* f[1] * g[1] + ... + f[n] * g[n]
RECURSIVE DotSum(_, _, _)
DotSum(f, g, n) == IF n = 0 THEN 0 ELSE DotSum(f, g, n - 1) + f[n] * g[n]

\* sum over j of A[j][i] * col[j]
Entry(A, i, col) ==
    DotSum([j \in 1..Len(A.columns) |-> A.columns[j][i]], col, Len(A.columns))

ProductColumn(A, col) == [i \in 1..Len(A.columns[1]) |-> Entry(A, i, col)]

UpTo(n) == [i \in 1..n |-> i]

\* C1: for a Matrix A of c columns and r rows, A * B with a Vector B of size c
\* is the Vector of length r with element i = sum_j A[j][i] * B[j]; with a
\* Matrix B of c rows and k columns the product has element (i, k) =
\* sum_j A[j][i] * B[k][j], as a Matrix of k columns when k >= 2 and as the
\* bare Vector of its single column when k = 1.
C1_MulContract ==
    (op = "Matrix.mul" /\ WellFormed(lhs)) =>
        /\ (rhs.kind = "Vector" /\ Len(rhs.elems) = Len(lhs.columns)) =>
               result = Vec(ProductColumn(lhs, rhs.elems))
        /\ (WellFormed(rhs) /\ Len(rhs.columns[1]) = Len(lhs.columns)) =>
               IF Len(rhs.columns) >= 2
               THEN result = Mat([k \in 1..Len(rhs.columns) |->
                                     ProductColumn(lhs, rhs.columns[k])])
               ELSE result = Vec(ProductColumn(lhs, rhs.columns[1]))

C1_Witness ==
    /\ op = "Matrix.mul"
    /\ lhs = Mat(<< <<0, 1>>, <<1, 1>> >>)
    /\ rhs = Mat(<< <<1, 0>>, <<1, 1>> >>)
    /\ result = Mat(<< <<0, 1>>, <<1, 2>> >>)

\* C2: add, subtract, in-place add, in-place subtract and dot product on a
\* Vector succeed only when the other operand is a Vector of the same length;
\* every other operand is a hard failure.
C2_VectorOpsRejectOthers ==
    (op \in {"Vector.add", "Vector.sub", "Vector.iadd", "Vector.isub",
             "Vector.scalar_prod"} /\ ~IsExc(result)) =>
        (rhs.kind = "Vector" /\ Len(rhs.elems) = Len(lhs0.elems))

\* C3: when an in-place add or subtract on a Vector or a Matrix raises, the
\* left operand and every one of its columns hold the values they held
\* before the call.
C3_FailBeforeMutation ==
    (op \in {"Vector.iadd", "Vector.isub", "Matrix.iadd", "Matrix.isub"}
        /\ IsExc(result)) => lhs = lhs0

\* C4 as stated: for every n >= 1 and every n-by-n Matrix M,
\* identity(n) * M is the Matrix M.
C4_IdentityAllN ==
    \A n \in 1..MaxCols :
        (op = "Matrix.mul" /\ lhs = Matrix_identity(n) /\ WellFormed(rhs)
            /\ Len(rhs.columns) = n /\ Len(rhs.columns[1]) = n) =>
        result = rhs

\* C4 amended: for every n >= 2 and every n-by-n Matrix M, identity(n) * M is
\* the Matrix M; for n = 1 it is the bare Vector equal to M's only column.
C4_IdentityLeftNeutral ==
    \A n \in 1..MaxCols :
        (op = "Matrix.mul" /\ lhs = Matrix_identity(n) /\ WellFormed(rhs)
            /\ Len(rhs.columns) = n /\ Len(rhs.columns[1]) = n) =>
        IF n >= 2 THEN result = rhs ELSE result = Vec(rhs.columns[1])

C4_Witness ==
    /\ op = "Matrix.mul"
    /\ lhs = Matrix_identity(2)
    /\ rhs = Mat(<< <<0, 1>>, <<1, 1>> >>)
    /\ result = rhs

\* C5: for a Vector v of size N and a Matrix M, v * M succeeds exactly when
\* M has N rows, and then has the entry dot(v, M[k]) for each column k of M
\* (v taken as a 1-by-N row); otherwise it fails with the dimension error.
C5_RMulRowVector ==
    (op = "Matrix.rmul" /\ lhs.kind = "Vector" /\ WellFormed(rhs)) =>
        LET dots_k == [k \in 1..Len(rhs.columns) |->
                          DotSum(lhs.elems, rhs.columns[k], Len(lhs.elems))]
        IN IF Len(lhs.elems) = Len(rhs.columns[1])
           THEN \/ result = Mat([k \in 1..Len(rhs.columns) |-> <<dots_k[k]>>])
                \/ result = Vec(dots_k)
           ELSE result = Exc("TypeError")

\* C6: for Vectors a, b of equal size and Matrices a, b of equal (cols, rows),
\* the in-place add (subtract) on a copy of a returns that copy itself, and
\* its contents then equal the result of the non-in-place add (subtract).
C6_InPlaceMatchesNew ==
    /\ (op = "Vector.iadd" /\ rhs.kind = "Vector"
           /\ Len(rhs.elems) = Len(lhs0.elems)) =>
          (result = SelfRef /\ lhs = Vector_add(lhs0, rhs))
    /\ (op = "Vector.isub" /\ rhs.kind = "Vector"
           /\ Len(rhs.elems) = Len(lhs0.elems)) =>
          (result = SelfRef /\ lhs = Vector_sub(lhs0, rhs))
    /\ (op = "Matrix.iadd" /\ WellFormed(lhs0) /\ WellFormed(rhs)
           /\ Len(rhs.columns) = Len(lhs0.columns)
           /\ Len(rhs.columns[1]) = Len(lhs0.columns[1])) =>
          (result = SelfRef /\ lhs = Matrix_add(lhs0, rhs))
    /\ (op = "Matrix.isub" /\ WellFormed(lhs0) /\ WellFormed(rhs)
           /\ Len(rhs.columns) = Len(lhs0.columns)
           /\ Len(rhs.columns[1]) = Len(lhs0.columns[1])) =>
          (result = SelfRef /\ lhs = Matrix_sub(lhs0, rhs))

C6_Witness ==
    /\ op = "Matrix.isub"
    /\ lhs0 = Mat(<< <<1, 0>>, <<1, 1>> >>)
    /\ rhs = Mat(<< <<0, 1>>, <<1, 0>> >>)
    /\ result = SelfRef
    /\ lhs = Mat(<< <<1, 0 - 1>>, <<0, 1>> >>)

\* C7 as stated: create_rotation_matrix(angle) has first column (c, -s) and
\* second column (s, c), c = cos(angle), s = sin(angle).
C7_RotationAsStated ==
    op = "create_rotation_matrix" =>
        /\ result.kind = "Matrix" /\ Len(result.columns) = 2
        /\ result.columns[1] = <<Cos(arg), 0 - Sin(arg)>>
        /\ result.columns[2] = <<Sin(arg), Cos(arg)>>

\* C7 amended: create_rotation_matrix(angle) is a 2-column Matrix whose first
\* column is (c, s) and whose second column is (-s, c).
C7_RotationColumns ==
    op = "create_rotation_matrix" =>
        /\ result.kind = "Matrix" /\ Len(result.columns) = 2
        /\ result.columns[1] = <<Cos(arg), Sin(arg)>>
        /\ result.columns[2] = <<0 - Sin(arg), Cos(arg)>>

C7_Witness ==
    /\ op = "create_rotation_matrix" /\ arg = 9
    /\ result.columns = << <<-195, 981>>, <<-981, -195>> >>

\* C8 as stated: at the end of the run point i has been transformed exactly
\* max(0, TOTAL_STEPS - i) times.
C8_CountAsStated ==
    pc = "done" =>
        \A i \in 0..(TOTAL_STEPS - 1) :
            Len(dotLog[i + 1]) = (IF TOTAL_STEPS - i > 0 THEN TOTAL_STEPS - i ELSE 0)

\* C8 amended: at the end of the run point i has been transformed exactly i
\* times, once in each of the steps 1..i and in no later step.
C8_DotAppliedITimes ==
    pc = "done" =>
        \A i \in 0..(TOTAL_STEPS - 1) : dotLog[i + 1] = UpTo(i)

C8_Witness ==
    /\ pc = "done"
    /\ dotLog[1] = <<>>
    /\ dotLog[3] = <<1, 2>>
    /\ Len(dotLog[TOTAL_STEPS]) = TOTAL_STEPS - 1

Polygons == {k \in 1..Len(canvas) : canvas[k].item = "polygon"}

\* C9 as stated: the run reaches DONE after exactly 8 iteration steps, each
\* applying the map once to every polygon vertex.
C9_EightSteps ==
    pc = "done" => \A v \in 1..Len(figLog) : figLog[v] = UpTo(TOTAL_STEPS)

\* C9 amended: the run always reaches DONE, after exactly TOTAL_STEPS - 1 = 7
\* iteration steps; in each step the map is applied exactly once to each of
\* the 4 vertices and the polygon is emitted once after it (8 polygons with
\* the initial one); no step is skipped or repeated.
C9_SevenSteps ==
    /\ <>(pc = "done")
    /\ [](pc = "draw" =>
             /\ Len(figLog) = 4
             /\ \A v \in 1..4 : figLog[v] = UpTo(step)
             /\ Cardinality(Polygons) = step)
    /\ [](pc = "done" =>
             /\ \A v \in 1..4 : figLog[v] = UpTo(TOTAL_STEPS - 1)
             /\ Cardinality(Polygons) = TOTAL_STEPS)

C9_Witness ==
    /\ pc = "done"
    /\ figLog[4] = <<1, 2, 3, 4, 5, 6, 7>>
    /\ Cardinality(Polygons) = 8

DotsDrawn == \E k \in 1..Len(canvas) : canvas[k].item = "oval"

\* C10 as stated: no application of the affine map occurs after a rendering
\* call.
C10_NoComputeAfterRender ==
    [][canvas # <<>> => (figLog' = figLog /\ dotLog' = dotLog)]_vars

\* C10 amended: the transform is built before the first rendering call and
\* never changes afterwards; the draw_figure calls are interleaved with the
\* steps, and only draw_dots comes after all computation: once draw_dots
\* has run, no vertex or point is transformed any more.
C10_OnlyDotsAfterCompute ==
    [][/\ canvas' # canvas => (m.kind = "Matrix" /\ m' = m /\ dv' = dv)
       /\ DotsDrawn => (figure' = figure /\ dots' = dots
                           /\ figLog' = figLog /\ dotLog' = dotLog)
       /\ (DotsDrawn' /\ ~DotsDrawn) =>
              (/\ \A v \in 1..4 : Len(figLog[v]) = TOTAL_STEPS - 1
               /\ Cardinality(Polygons) = TOTAL_STEPS)]_vars

C10_Witness ==
    /\ pc = "done"
    /\ DotsDrawn
    /\ Len(canvas) = TOTAL_STEPS + 1 + 2 * (TOTAL_STEPS - 1)
    /\ canvas[2].item = "polygon" /\ Len(figLog[1]) = TOTAL_STEPS - 1

====
